---- MODULE Spec2Model ----
(***************************************************************************)
(* canvas-speed-grader: the grading pipeline of src/api/services/          *)
(* grading_service.py (text extraction, response parsing, grade            *)
(* validation, fairness review) and the job orchestration of               *)
(* src/api/main.py (start_grading, run_grading_job, get_grading_status).   *)
(*                                                                         *)
(* Strings are modelled by what the code looks at: an extracted text is    *)
(* the sequence of per-file chunks that "\n\n".join glues together, a raw  *)
(* model answer is a sequence of lines of tokens.  Scores are integers     *)
(* (the unit is arbitrary); Python's None is the string "None" for error   *)
(* messages and the record NoResult for a job's result.                    *)
(***************************************************************************)
EXTENDS Integers, Sequences, FiniteSets, TLC

(* ------------------------------ bounds --------------------------------- *)

\* longest rubric
MaxCrit == 2
\* largest point cap of a criterion; reported scores range over -1..MaxPoints+1
MaxPoints == 2
\* most files attached to one submission
MaxFiles == 2
\* most submissions of one job
MaxSubs == 2
\* most tokens of a one-line model answer
MaxToks == 3

(* ------------------------------ helpers -------------------------------- *)

Min(a, b) == IF b < a THEN b ELSE a
Max(a, b) == IF b > a THEN b ELSE a

\* d[k] = v on a Python dict: insert or overwrite
Put(d, k, v) == [x \in (DOMAIN d) \cup {k} |-> IF x = k THEN v ELSE d[x]]

EmptyDict == [x \in {} |-> 0]

RECURSIVE SumOver(_, _)
SumOver(d, keys) ==
    IF keys = {} THEN 0
    ELSE LET k == CHOOSE x \in keys : TRUE
         IN  d[k].score + SumOver(d, keys \ {k})

\* sum of the scores of a criteria mapping
SumScores(criteria) == SumOver(criteria, DOMAIN criteria)

(* ------------------------------ rubrics -------------------------------- *)

CriterionIds == {"c1", "c2"}

\* a criterion as CanvasService._get_assignment_rubric builds it (the fields
\* the grader reads)
Criteria == [id : CriterionIds, points : 0..MaxPoints]

Rubrics == UNION {[1..n -> Criteria] : n \in 0..MaxCrit}

RubricIds(rubric) == {rubric[i].id : i \in 1..Len(rubric)}

UniqueIds(rubric) ==
    \A i, k \in 1..Len(rubric) : rubric[i].id = rubric[k].id => i = k

(* --------------------------- text extraction --------------------------- *)

\* What reading a file does.  "text": readable, non-empty; "empty": readable,
\* no text at all; "unreadable": the reader raises.  PDFs only: "scanned" has
\* no embedded text and OCR returns text, "ocr_failed" has none and OCR raises.
FileContents(ext) ==
    IF ext = "pdf" THEN {"text", "empty", "unreadable", "scanned", "ocr_failed"}
    ELSE {"text", "empty", "unreadable"}

Files == {f \in [ext : {"pdf", "docx", "txt", "other"},
                 content : {"text", "empty", "unreadable", "scanned", "ocr_failed"}] :
             f.content \in FileContents(f.ext)}

FileLists == UNION {[1..n -> Files] : n \in 0..MaxFiles}

\* strings that begin with "["
BracketStrings == {"[OCR failed: e]", "[Error reading PDF: e]",
                   "[Error reading DOCX: e]", "[Unable to read file: name]",
                   "[Error reading name: e]"}

_ocr_pdf(f) ==
    CASE f.content = "scanned"    -> "ocr text"
      [] f.content = "ocr_failed" -> "[OCR failed: e]"
      [] OTHER                    -> ""

_extract_pdf_text(f) ==
    CASE f.content = "unreadable" -> "[Error reading PDF: e]"
      [] f.content = "text"       -> "text"
      [] OTHER                    -> _ocr_pdf(f)

_extract_docx_text(f) ==
    CASE f.content = "unreadable" -> "[Error reading DOCX: e]"
      [] f.content = "text"       -> "text"
      [] OTHER                    -> ""

\* open(...).read() of a .txt or unrecognized file
ReadUtf8(f) ==
    [raised |-> f.content = "unreadable",
     text   |-> IF f.content = "text" THEN "text" ELSE ""]

\* the inner except of the unrecognized-extension branch
UnableToReadReraise(f) == [raised |-> TRUE, text |-> ""]
UnableToRead(f) == [raised |-> FALSE, text |-> "[Unable to read file: name]"]

\* The body of the try block up to "if text": the text read from one file,
\* or raised when an exception leaves the branch taken.
ReadFile(f) ==
    CASE f.ext = "pdf"  -> [raised |-> FALSE, text |-> _extract_pdf_text(f)]
      [] f.ext = "docx" -> [raised |-> FALSE, text |-> _extract_docx_text(f)]
      [] f.ext = "txt"  -> ReadUtf8(f)
      [] OTHER          -> IF ReadUtf8(f).raised THEN UnableToRead(f) ELSE ReadUtf8(f)

\* if text: all_text.append(f"--- File: {name} ---\n{text}")
\* head is the "--- File: <name> ---\n" prefix ("" when a chunk has none)
Appended(text) ==
    IF text # "" THEN <<[head |-> "--- File: name ---", body |-> text]>> ELSE <<>>

\* except Exception as e: all_text.append(f"[Error reading {name}: {e}]")
ErrorMarkerRaise(f) == [raised |-> TRUE, chunks |-> <<>>]
ErrorMarker(f) ==
    [raised |-> FALSE,
     chunks |-> <<[head |-> "", body |-> "[Error reading name: e]"]>>]

\* One turn of the loop over file_paths: the chunks the file adds to
\* all_text (at most one), or raised when an exception leaves the loop.
FileChunk(f) ==
    IF ReadFile(f).raised THEN ErrorMarker(f)
    ELSE [raised |-> FALSE, chunks |-> Appended(ReadFile(f).text)]

\* text is all_text, the chunks "\n\n".join glues together
RECURSIVE extract_text_from_files(_)
extract_text_from_files(file_paths) ==
    IF file_paths = <<>> THEN [raised |-> FALSE, text |-> <<>>]
    ELSE LET first == FileChunk(Head(file_paths))
             rest  == extract_text_from_files(Tail(file_paths))
         IN  IF first.raised \/ rest.raised THEN [raised |-> TRUE, text |-> <<>>]
             ELSE [raised |-> FALSE, text |-> first.chunks \o rest.text]

\* not submission_text
IsEmptyText(text) == Len(text) = 0

\* submission_text.startswith('[')
StartsWithBracket(text) ==
    /\ Len(text) > 0
    /\ IF text[1].head # "" THEN FALSE ELSE text[1].body \in BracketStrings

(* --------------------------- response parser --------------------------- *)

\* A raw model answer is a sequence of lines, a line a sequence of tokens:
\* a code fence (``` alone, or ```json), a word of prose, or one complete
\* JSON value.  A word has no brace (Word), a "{" (OpenWord) or a "}"
\* (CloseWord); of the JSON values only the objects contain braces.
NoJson == [kind |-> "none"]
Fence(lang) == [t |-> "fence", lang |-> lang, v |-> NoJson]
Word == [t |-> "word", lang |-> FALSE, v |-> NoJson]
OpenWord == [t |-> "open", lang |-> FALSE, v |-> NoJson]
CloseWord == [t |-> "close", lang |-> FALSE, v |-> NoJson]
Json(v) == [t |-> "json", lang |-> FALSE, v |-> v]

RECURSIVE Flatten(_)
Flatten(lines) ==
    IF lines = <<>> THEN <<>> ELSE Head(lines) \o Flatten(Tail(lines))

\* text.strip(): blank lines at both ends go
RECURSIVE Strip(_)
Strip(lines) ==
    IF lines = <<>> THEN <<>>
    ELSE IF Head(lines) = <<>> THEN Strip(Tail(lines))
    ELSE IF lines[Len(lines)] = <<>> THEN Strip(SubSeq(lines, 1, Len(lines) - 1))
    ELSE lines

\* text.startswith('```')
StartsWithFence(lines) ==
    Len(lines) > 0 /\ Len(lines[1]) > 0 /\ lines[1][1].t = "fence"

\* '\n'.join(lines[1:-1] if lines[-1] == '```' else lines[1:])
RemoveFence(lines) ==
    IF lines[Len(lines)] = <<Fence(FALSE)>>
    THEN SubSeq(lines, 2, Len(lines) - 1)
    ELSE Tail(lines)

\* json.loads of a token sequence: one JSON value and nothing else
JsonLoads(toks) ==
    [raised |-> ~(Len(toks) = 1 /\ toks[1].t = "json"),
     value  |-> IF Len(toks) = 1 /\ toks[1].t = "json" THEN toks[1].v ELSE NoJson]

HasBraces(tok) == tok.t = "json" /\ tok.v.kind = "object"

\* the token has a "{", a "}"
HasOpen(tok) == tok.t = "open" \/ HasBraces(tok)
HasClose(tok) == tok.t = "close" \/ HasBraces(tok)

\* re.search(r'\{[\s\S]*\}', text): from the first "{" to the last "}" of
\* the text, when that "}" is not before the "{".  The group is whole tokens
\* only when it starts and ends with an object.
RegexMatch(toks) ==
    LET opens  == {i \in 1..Len(toks) : HasOpen(toks[i])}
        closes == {i \in 1..Len(toks) : HasClose(toks[i])}
    IN  IF opens = {} \/ closes = {} THEN [found |-> FALSE, group |-> <<>>]
        ELSE LET lo == CHOOSE i \in opens : \A k \in opens : i <= k
                 hi == CHOOSE i \in closes : \A k \in closes : i >= k
             IN  IF hi < lo THEN [found |-> FALSE, group |-> <<>>]
                 ELSE [found |-> TRUE, group |-> SubSeq(toks, lo, hi)]

_parse_json_response(raw) ==
    LET stripped == Strip(raw)
        text  == IF StartsWithFence(stripped) THEN RemoveFence(stripped) ELSE stripped
        toks  == Flatten(text)
        first == JsonLoads(toks)
        match == RegexMatch(toks)
        again == JsonLoads(match.group)
    IN  IF ~first.raised THEN first
        ELSE IF match.found /\ ~again.raised THEN again
        ELSE [raised |-> TRUE, value |-> NoJson]

ParseErrorMsg == "Could not parse JSON response from AI"

\* the shapes of raw text the models produce
Plain(v) == << <<Json(v)>> >>
Fenced(v) == << <<Fence(TRUE)>>, <<Json(v)>>, <<Fence(FALSE)>> >>
FencedOpen(v) == << <<Fence(TRUE)>>, <<Json(v)>> >>
Prose(v) == << <<>>, <<Word, Json(v), Word>>, <<>> >>
TwoValues(v, w) == << <<Json(v), Word, Json(w)>> >>
Garbage == << <<Word, Word>> >>

(* ------------------------------ grader -------------------------------- *)

\* A string the code builds by concatenation is the sequence of its pieces:
\* Str(s) is the literal s, Msg(prefix, text) is f"{prefix}{text}".
Str(s) == <<s>>
Msg(prefix, text) == <<prefix, text>>

\* scores a model may report for a criterion
ScoreVals == (0 - 1)..(MaxPoints + 1)

\* one entry of the response's "criteria": num is whether float(score) works
Entries == [num : {TRUE}, score : ScoreVals, feedback : {Str("fb")}]
              \cup {[num |-> FALSE, score |-> 0, feedback |-> Str("fb")]}

CriteriaMaps == UNION {[ids -> Entries] : ids \in SUBSET CriterionIds}

\* the total the model claims; 99 is no sum of clamped scores
ReportedTotals == {0, 99}

GraderObjects == [kind : {"object"}, criteria : CriteriaMaps,
                  total : ReportedTotals, general_feedback : {"gf"}]

\* valid JSON that is no object
NonObjects == {[kind |-> "array"], [kind |-> "number"]}

\* score = max(0, min(score, max_points))
ClampNoFloor(score, max_points) == Min(score, max_points)
Clamp(score, max_points) == Max(0, Min(score, max_points))

\* validated['total'] starts at 0, whatever the response says
TotalFromModel(result) == result.total
InitialTotal(result) == 0

\* _validate_grade_result raises when result is no mapping (result.get) or a
\* score of a rubric criterion is not a number (float)
ValidateRaises(result, rubric) ==
    \/ result.kind # "object"
    \/ \E i \in 1..Len(rubric) :
          /\ rubric[i].id \in DOMAIN result.criteria
          /\ ~result.criteria[rubric[i].id].num

\* validated['criteria'][criterion_id] = {...}; validated['total'] += score
StoreScore(validated, criterion_id, score, feedback) ==
    [validated EXCEPT
        !.criteria = Put(@, criterion_id, [score |-> score, feedback |-> feedback]),
        !.total = @ + score]

\* one turn of the loop over the rubric
ValidateCriterionSkipMissing(validated, criteria, criterion) ==
    IF criterion.id \in DOMAIN criteria
    THEN StoreScore(validated, criterion.id,
                    Clamp(criteria[criterion.id].score, criterion.points),
                    criteria[criterion.id].feedback)
    ELSE validated
ValidateCriterion(validated, criteria, criterion) ==
    IF criterion.id \in DOMAIN criteria
    THEN StoreScore(validated, criterion.id,
                    Clamp(criteria[criterion.id].score, criterion.points),
                    criteria[criterion.id].feedback)
    ELSE StoreScore(validated, criterion.id, 0, Str("No assessment provided"))

RECURSIVE ValidateLoop(_, _, _, _)
ValidateLoop(criteria, rubric, i, validated) ==
    IF i > Len(rubric) THEN validated
    ELSE ValidateLoop(criteria, rubric, i + 1,
                      ValidateCriterion(validated, criteria, rubric[i]))

_validate_grade_result(result, rubric) ==
    IF ValidateRaises(result, rubric)
    THEN [raised |-> TRUE, exc |-> "invalid response", value |-> NoJson]
    ELSE [raised |-> FALSE, exc |-> "",
          value |-> ValidateLoop(result.criteria, rubric, 1,
                                 [criteria |-> EmptyDict,
                                  total |-> InitialTotal(result),
                                  general_feedback |-> Str(result.general_feedback),
                                  error |-> FALSE])]

\* {'score': 0, 'feedback': 'Unable to grade'}
EmptyEntryFullPoints(criterion) ==
    [score |-> criterion.points, feedback |-> Str("Unable to grade")]
EmptyEntry(criterion) == [score |-> 0, feedback |-> Str("Unable to grade")]

RECURSIVE EmptyLoop(_, _, _)
EmptyLoop(rubric, i, result) ==
    IF i > Len(rubric) THEN result
    ELSE EmptyLoop(rubric, i + 1,
                   [result EXCEPT !.criteria =
                       Put(@, rubric[i].id, EmptyEntry(rubric[i]))])

_create_empty_grade(rubric, message) ==
    EmptyLoop(rubric, 1,
              [criteria |-> EmptyDict, total |-> 0,
               general_feedback |-> message, error |-> TRUE])

\* What the world does during one grade_submission call.  prompt_raises: the
\* code between extraction and the try block raises (_format_rubric on a
\* rating that is no mapping); call_raises: the OpenAI call raises; text: the
\* content of the answer otherwise.
PrimaryOutcome(prompt_raises, call_raises, text) ==
    [prompt_raises |-> prompt_raises, call_raises |-> call_raises, text |-> text]

\* the except branch of grade_submission
GradingFailedAfterRetry(rubric, e) ==
    [raised |-> FALSE, exc |-> "", model_calls |-> 2,
     ret |-> _create_empty_grade(rubric, Msg("Grading failed: ", e))]
GradingFailedRaise(rubric, e) ==
    [raised |-> TRUE, exc |-> e, ret |-> NoJson, model_calls |-> 1]
GradingFailed(rubric, e) ==
    [raised |-> FALSE, exc |-> "", model_calls |-> 1,
     ret |-> _create_empty_grade(rubric, Msg("Grading failed: ", e))]

\* the check of the extracted text before any model call
UnreadableBracketOnly(submission_text) == StartsWithBracket(submission_text)
Unreadable(submission_text) ==
    IsEmptyText(submission_text) \/ StartsWithBracket(submission_text)

\* ret is the returned grade unless raised; model_calls counts the calls of
\* the primary model
grade_submission(files, rubric, outcome) ==
    LET extracted == extract_text_from_files(files)
        submission_text == extracted.text
        parsed == _parse_json_response(outcome.text)
        validated == _validate_grade_result(parsed.value, rubric)
    IN  IF extracted.raised
        THEN [raised |-> TRUE, exc |-> "read error", ret |-> NoJson, model_calls |-> 0]
        ELSE IF Unreadable(submission_text)
        THEN [raised |-> FALSE, exc |-> "", model_calls |-> 0,
              ret |-> _create_empty_grade(rubric,
                          Str("Unable to read submission files"))]
        ELSE IF outcome.prompt_raises
        THEN [raised |-> TRUE, exc |-> "prompt error", ret |-> NoJson, model_calls |-> 0]
        ELSE IF outcome.call_raises THEN GradingFailed(rubric, "api error")
        ELSE IF parsed.raised THEN GradingFailed(rubric, ParseErrorMsg)
        ELSE IF validated.raised THEN GradingFailed(rubric, validated.exc)
        ELSE [raised |-> FALSE, exc |-> "", model_calls |-> 1, ret |-> validated.value]

(* ------------------------- fairness reviewer --------------------------- *)

\* confidence in tenths: 5 is the default 0.5
Confidences == {0 - 1, 0, 5, 10, 15}

ReviewerObjects == [kind : {"object"}, flagged : BOOLEAN, confidence : Confidences,
                    message : {"review message"}]

ReviewOutcome(prompt_raises, call_raises, text) ==
    [prompt_raises |-> prompt_raises, call_raises |-> call_raises, text |-> text]

\* a review without the keys confidence, issues, suggested_adjustments
\* (full = FALSE: the confidence field stands for no key)
ShortReview(message) ==
    [flagged |-> FALSE, message |-> message, full |-> FALSE, confidence |-> 0]

\* the except branch of fairness_review
ReviewSkippedRaise(e, calls) ==
    [raised |-> TRUE, exc |-> e, ret |-> NoJson,
     reviewer_calls |-> calls, extractions |-> 1]
ReviewSkipped(e, calls) ==
    [raised |-> FALSE, exc |-> "", ret |-> ShortReview(Msg("Review skipped: ", e)),
     reviewer_calls |-> calls, extractions |-> 1]

\* if grade_result.get('error')
SkipNever(grade_result) == FALSE
SkipOnError(grade_result) == grade_result.error

fairness_review(files, rubric, grade_result, outcome) ==
    LET parsed == _parse_json_response(outcome.text)
    IN  IF SkipOnError(grade_result)
        THEN [raised |-> FALSE, exc |-> "",
              ret |-> ShortReview(Str("Skipped - grading error")),
              reviewer_calls |-> 0, extractions |-> 0]
        ELSE IF extract_text_from_files(files).raised THEN ReviewSkipped("read error", 0)
        ELSE IF outcome.prompt_raises THEN ReviewSkipped("prompt error", 0)
        ELSE IF outcome.call_raises THEN ReviewSkipped("api error", 1)
        ELSE IF parsed.raised THEN ReviewSkipped(ParseErrorMsg, 1)
        ELSE IF parsed.value.kind # "object" THEN ReviewSkipped("no attribute get", 1)
        ELSE [raised |-> FALSE, exc |-> "",
              ret |-> [flagged |-> parsed.value.flagged,
                       message |-> Str(parsed.value.message),
                       full |-> TRUE,
                       confidence |-> parsed.value.confidence],
              reviewer_calls |-> 1, extractions |-> 1]

(* ------------------------------ regrade -------------------------------- *)

\* one entry of suggested_adjustments; num is whether suggested_score is a
\* number
AdjustEntries == [num : {TRUE}, suggested_score : ScoreVals, reason : {"r"}]
                    \cup {[num |-> FALSE, suggested_score |-> 0, reason |-> "r"]}

Adjustments == UNION {[ids -> AdjustEntries] : ids \in SUBSET CriterionIds}

\* the loop over adjustments.items(); the inner mappings it writes to are
\* the ones of grade_result (dict(...) copies the outer mapping only)
RECURSIVE AdjustLoop(_, _, _)
AdjustLoop(criteria, adjustments, keys) ==
    IF keys = {} THEN criteria
    ELSE LET k == CHOOSE x \in keys : TRUE
             adjusted ==
                 IF k \in DOMAIN criteria
                 THEN [criteria EXCEPT ![k] =
                         [score |-> adjustments[k].suggested_score,
                          feedback |-> @.feedback \o
                                        <<"\n[Adjusted: ", adjustments[k].reason, "]">>]]
                 ELSE criteria
         IN  AdjustLoop(adjusted, adjustments, keys \ {k})

\* for criterion_data in updated['criteria'].values(): updated['total'] += ...
RECURSIVE RecalculateTotal(_, _, _)
RecalculateTotal(criteria, keys, total) ==
    IF keys = {} THEN total
    ELSE LET k == CHOOSE x \in keys : TRUE
         IN  RecalculateTotal(criteria, keys \ {k}, total + criteria[k].score)

\* ret is the returned grade unless raised (the sum meets a score that is no
\* number); grade_result_after is the argument as the call leaves it
regrade_with_adjustments(grade_result, adjustments) ==
    LET criteria == AdjustLoop(grade_result.criteria, adjustments, DOMAIN adjustments)
    IN  [raised |-> \E k \in DOMAIN adjustments :
                        k \in DOMAIN criteria /\ ~adjustments[k].num,
         ret |-> [criteria |-> criteria,
                  total |-> RecalculateTotal(criteria, DOMAIN criteria, 0),
                  general_feedback |-> grade_result.general_feedback,
                  error |-> FALSE,
                  adjusted |-> TRUE],
         grade_result_after |-> [grade_result EXCEPT !.criteria = criteria]]

(* ---------------------------- the state -------------------------------- *)

VARIABLES
    call,          \* the service call under study and what it returned
    grading_jobs,  \* main.py: the job store, job id -> job record
    worker,        \* the locals of each job's run_grading_job thread
    poll,          \* the locals of the get_grading_status request in progress
    response       \* the answer of get_grading_status, when that is the latest step

vars == <<call, grading_jobs, worker, poll, response>>

NoCall == [op |-> "none"]

(* -------------------- inputs of the service calls ---------------------- *)

File(ext, content) == [ext |-> ext, content |-> content]

\* a thesis/evidence rubric, and the same ids twice
SampleRubrics ==
    {<<[id |-> "c1", points |-> MaxPoints], [id |-> "c2", points |-> MaxPoints]>>,
     <<[id |-> "c1", points |-> 1]>>}

SampleFileLists ==
    {<<>>, <<File("txt", "text")>>, <<File("docx", "text"), File("pdf", "scanned")>>}

GoodObject ==
    [kind |-> "object",
     criteria |-> [id \in CriterionIds |->
                     [num |-> TRUE, score |-> IF id = "c1" THEN MaxPoints + 1 ELSE 1,
                      feedback |-> Str("fb")]],
     total |-> 99, general_feedback |-> "gf"]

\* what the primary model may answer
PrimaryTexts ==
    {Plain(v) : v \in GraderObjects \cup NonObjects}
        \cup {Garbage, Fenced(GoodObject), FencedOpen(GoodObject), Prose(GoodObject),
              TwoValues(GoodObject, GoodObject)}

PrimaryOutcomes ==
    {PrimaryOutcome(TRUE, FALSE, Garbage), PrimaryOutcome(FALSE, TRUE, Garbage)}
        \cup {PrimaryOutcome(FALSE, FALSE, t) : t \in PrimaryTexts}

SamplePrimaryOutcomes ==
    {PrimaryOutcome(TRUE, FALSE, Garbage), PrimaryOutcome(FALSE, TRUE, Garbage),
     PrimaryOutcome(FALSE, FALSE, Plain(GoodObject)),
     PrimaryOutcome(FALSE, FALSE, Garbage)}

\* every rubric with every answer on a few file lists, and every file list
\* with a few rubrics and answers
GradeInputs ==
    (SampleFileLists \X Rubrics \X PrimaryOutcomes)
        \cup (FileLists \X SampleRubrics \X SamplePrimaryOutcomes)

ReviewTexts ==
    {Plain(v) : v \in ReviewerObjects \cup NonObjects}
        \cup {Garbage} \cup {Fenced(v) : v \in ReviewerObjects}

ReviewOutcomes ==
    {ReviewOutcome(TRUE, FALSE, Garbage), ReviewOutcome(FALSE, TRUE, Garbage)}
        \cup {ReviewOutcome(FALSE, FALSE, t) : t \in ReviewTexts}

\* grades grade_submission returns for a rubric
GradesOf(rubric) ==
    {grade_submission(f, rubric, o).ret :
        f \in {<<>>, <<File("txt", "text")>>},
        o \in SamplePrimaryOutcomes \ {PrimaryOutcome(TRUE, FALSE, Garbage)}}

\* the tokens of a one-line answer, and the answers the parser is tried on:
\* every line of at most MaxToks tokens and the fenced shapes
SampleValues == {GoodObject, [kind |-> "array"]}

Tokens ==
    {Fence(TRUE), Fence(FALSE), Word, OpenWord, CloseWord}
        \cup {Json(v) : v \in SampleValues}

ParserTexts ==
    {<<line>> : line \in UNION {[1..n -> Tokens] : n \in 0..MaxToks}}
        \cup UNION {{Fenced(v), FencedOpen(v), Prose(v)} : v \in SampleValues}
        \cup {TwoValues(GoodObject, GoodObject), Garbage, <<>>}

(* ----------------------- service calls, one each ----------------------- *)

Call_extract_text_from_files ==
    /\ call.op = "none"
    /\ \E file_paths \in FileLists :
          call' = [op |-> "extract_text_from_files", files |-> file_paths,
                   out |-> extract_text_from_files(file_paths)]
    /\ UNCHANGED <<grading_jobs, worker, poll, response>>

Call_parse_json_response ==
    /\ call.op = "none"
    /\ \E text \in ParserTexts :
          call' = [op |-> "_parse_json_response", text |-> text,
                   out |-> _parse_json_response(text)]
    /\ UNCHANGED <<grading_jobs, worker, poll, response>>


Call_validate_grade_result ==
    /\ call.op = "none"
    /\ \E rubric \in Rubrics, result \in GraderObjects \cup NonObjects :
          call' = [op |-> "_validate_grade_result", rubric |-> rubric,
                   result |-> result,
                   out |-> _validate_grade_result(result, rubric)]
    /\ UNCHANGED <<grading_jobs, worker, poll, response>>

Call_grade_submission ==
    /\ call.op = "none"
    /\ \E in \in GradeInputs :
          call' = [op |-> "grade_submission", files |-> in[1], rubric |-> in[2],
                   outcome |-> in[3],
                   out |-> grade_submission(in[1], in[2], in[3])]
    /\ UNCHANGED <<grading_jobs, worker, poll, response>>

Call_fairness_review ==
    /\ call.op = "none"
    /\ \E rubric \in SampleRubrics, files \in SampleFileLists \ {<<>>},
          outcome \in ReviewOutcomes :
          \E grade_result \in GradesOf(rubric) :
              call' = [op |-> "fairness_review", files |-> files, rubric |-> rubric,
                       grade_result |-> grade_result, outcome |-> outcome,
                       out |-> fairness_review(files, rubric, grade_result, outcome)]
    /\ UNCHANGED <<grading_jobs, worker, poll, response>>

Call_regrade_with_adjustments ==
    /\ call.op = "none"
    /\ \E rubric \in Rubrics, adjustments \in Adjustments :
          \E grade_result \in GradesOf(rubric) :
              call' = [op |-> "regrade_with_adjustments", rubric |-> rubric,
                       grade_result |-> grade_result, adjustments |-> adjustments,
                       out |-> regrade_with_adjustments(grade_result, adjustments)]
    /\ UNCHANGED <<grading_jobs, worker, poll, response>>

\* the call is over
Return ==
    /\ call.op # "none"
    /\ call' = NoCall
    /\ UNCHANGED <<grading_jobs, worker, poll, response>>

(* ----------------------------- the jobs -------------------------------- *)

\* job ids (uuid4 in the code)
JobIds == {"j1", "j2"}

\* Python's None
None == "None"

\* response is the answer of get_grading_status when a poll is the latest
\* step, and NoResponse when the latest step is another one
NoResponse == [code |-> 0]
NoResult == [null |-> TRUE]

\* what the worker fetches and meets
JobRubric ==
    <<[id |-> "c1", points |-> MaxPoints], [id |-> "c2", points |-> 1]>>

Assignment == [name |-> "essay"]

\* the submissions get_submissions returns: ids are Canvas' own, unique
Submissions(n) == [k \in 1..n |-> [id |-> k, anonymous_id |-> ToString(k)]]

\* the numbers of submissions get_submissions returns to the worker of job
\* j: up to MaxSubs for the first job, and none or one for the job that
\* runs beside it
SubmissionCounts(j) == IF j = "j1" THEN 0..MaxSubs ELSE {0, 1}

\* the job a client polls
PolledJobs == {"j1"}

\* the files download_submission_files returns for a submission: none (no
\* attachment, an attachment without url, a download that failed), the one
\* attachment, or both of two
JobFileLists ==
    {<<>>, <<File("txt", "text")>>, <<File("txt", "text"), File("docx", "text")>>}

JobPrimaryOutcomes ==
    {PrimaryOutcome(TRUE, FALSE, Garbage), PrimaryOutcome(FALSE, TRUE, Garbage),
     PrimaryOutcome(FALSE, FALSE, Plain(GoodObject))}

FlaggingReview ==
    [kind |-> "object", flagged |-> TRUE, confidence |-> 10,
     message |-> "review message"]

JobReviewOutcomes ==
    {ReviewOutcome(FALSE, TRUE, Garbage),
     ReviewOutcome(FALSE, FALSE, Plain(FlaggingReview))}

NoGrade == [null |-> TRUE]

\* reviewer, a local the code does not have: what the reviewer model did
\* during the fairness_review call of the current submission
NoOutcome == [null |-> TRUE]

\* the locals of run_grading_job before its first statement; temp_files are
\* the temporary files its downloads have written and cleanup_files has not
\* been called on; primary_calls and reviewer_calls count the calls of the
\* two models the worker has made, validated the grades that came out of
\* _validate_grade_result
WorkerStart ==
    [pc |-> "start", rubric |-> <<>>, submissions |-> <<>>, i |-> 0,
     files |-> <<>>, grade_result |-> NoGrade, review_result |-> NoGrade,
     grades |-> EmptyDict, exc |-> None, reviewer |-> NoOutcome,
     temp_files |-> <<>>,
     primary_calls |-> 0, reviewer_calls |-> 0, validated |-> 0]

Status(j) == grading_jobs[j].status

At(j, pc) == j \in DOMAIN worker /\ worker[j].pc = pc

\* an exception reaches the except clause of run_grading_job
Raise(w, e) == [w EXCEPT !.pc = "except", !.exc = e]

\* start_grading: the request is complete, the user known and subscribed
\* (any other request returns 400, 404 or 402 and creates nothing); the job
\* record is created and the worker thread started
start_grading(j) ==
    /\ j \notin DOMAIN grading_jobs
    /\ grading_jobs' = Put(grading_jobs, j,
                           [status |-> "pending",
                            progress |-> [current |-> 0, total |-> 0,
                                          currentStudent |-> None],
                            result |-> NoResult,
                            error |-> None])
    /\ worker' = Put(worker, j, WorkerStart)
    /\ UNCHANGED <<call, poll>>
    /\ response' = NoResponse

\* grading_jobs[job_id]['status'] = 'running'
SetRunningNoWrite(j) ==
    /\ At(j, "start")
    /\ worker' = [worker EXCEPT ![j].pc = "get_assignment"]
    /\ UNCHANGED <<call, grading_jobs, poll>>
    /\ response' = NoResponse
SetRunning(j) ==
    /\ At(j, "start")
    /\ grading_jobs' = [grading_jobs EXCEPT ![j].status = "running"]
    /\ worker' = [worker EXCEPT ![j].pc = "get_assignment"]
    /\ UNCHANGED <<call, poll>>
    /\ response' = NoResponse

\* assignment = canvas_service.get_assignment(assignment_id)
GetAssignment(j) ==
    /\ At(j, "get_assignment")
    /\ \E ok \in BOOLEAN :
          worker' = [worker EXCEPT ![j] =
                        IF ok THEN [@ EXCEPT !.pc = "get_rubric"]
                        ELSE Raise(@, "Failed to fetch assignment")]
    /\ UNCHANGED <<call, grading_jobs, poll>>
    /\ response' = NoResponse

\* rubric = canvas_service.get_rubric(assignment_id)
GetRubric(j) ==
    /\ At(j, "get_rubric")
    /\ \E ok \in BOOLEAN :
          worker' = [worker EXCEPT ![j] =
                        IF ok THEN [@ EXCEPT !.pc = "get_submissions",
                                             !.rubric = JobRubric]
                        ELSE Raise(@, "Failed to fetch rubric")]
    /\ UNCHANGED <<call, grading_jobs, poll>>
    /\ response' = NoResponse

\* submissions = canvas_service.get_submissions(...), cut short by an
\* exception of the fetch
GetSubmissionsRaises(j) ==
    /\ At(j, "get_submissions")
    /\ worker' = [worker EXCEPT ![j] = Raise(@, "Failed to fetch submissions")]
    /\ UNCHANGED <<call, grading_jobs, poll>>
    /\ response' = NoResponse

\* submissions = ...; progress['total'] = len(submissions); grades = {}
GetSubmissionsNoTotal(j) ==
    /\ At(j, "get_submissions")
    /\ \E n \in SubmissionCounts(j) :
          worker' = [worker EXCEPT ![j].pc = "loop",
                                   ![j].submissions = Submissions(n),
                                   ![j].grades = EmptyDict,
                                   ![j].i = 0]
    /\ UNCHANGED <<call, grading_jobs, poll>>
    /\ response' = NoResponse
GetSubmissions(j) ==
    /\ At(j, "get_submissions")
    /\ \E n \in SubmissionCounts(j) :
          /\ worker' = [worker EXCEPT ![j].pc = "loop",
                                      ![j].submissions = Submissions(n),
                                      ![j].grades = EmptyDict,
                                      ![j].i = 0]
          /\ grading_jobs' = [grading_jobs EXCEPT ![j].progress.total = n]
    /\ UNCHANGED <<call, poll>>
    /\ response' = NoResponse

\* grading_jobs[job_id]['progress']['current'] = i + 1
ProgressCurrentOffByOne(i) == i
ProgressCurrent(i) == i + 1

\* for i, submission in enumerate(submissions): the next submission, with
\* progress['current'] = i + 1
LoopNext(j) ==
    /\ At(j, "loop")
    /\ worker[j].i < Len(worker[j].submissions)
    /\ grading_jobs' = [grading_jobs EXCEPT
                           ![j].progress.current = ProgressCurrent(worker[j].i)]
    /\ worker' = [worker EXCEPT ![j].pc = "current_student"]
    /\ UNCHANGED <<call, poll>>
    /\ response' = NoResponse

\* progress['currentStudent'] = submission.get('anonymous_id', ...)
SetCurrentStudent(j) ==
    /\ At(j, "current_student")
    /\ grading_jobs' = [grading_jobs EXCEPT
                           ![j].progress.currentStudent =
                               worker[j].submissions[worker[j].i + 1].anonymous_id]
    /\ worker' = [worker EXCEPT ![j].pc = "download"]
    /\ UNCHANGED <<call, poll>>
    /\ response' = NoResponse

\* the loop is over
LoopEnd(j) ==
    /\ At(j, "loop")
    /\ worker[j].i >= Len(worker[j].submissions)
    /\ worker' = [worker EXCEPT ![j].pc = "store_status"]
    /\ UNCHANGED <<call, grading_jobs, poll>>
    /\ response' = NoResponse

\* files = canvas_service.download_submission_files(submission): a download
\* that fails is logged and left out, the call does not raise
Download(j) ==
    /\ At(j, "download")
    /\ \E files \in JobFileLists :
          worker' = [worker EXCEPT ![j].pc = "grade", ![j].files = files,
                                      ![j].temp_files = @ \o files]
    /\ UNCHANGED <<call, grading_jobs, poll>>
    /\ response' = NoResponse

\* grade_result = grading_service.grade_submission(files, rubric, assignment)
GradeReleasesFiles(j) ==
    /\ At(j, "grade")
    /\ \E outcome \in JobPrimaryOutcomes :
          LET r == grade_submission(worker[j].files, worker[j].rubric, outcome)
          IN  worker' = [worker EXCEPT ![j] =
                            IF r.raised
                            THEN Raise([@ EXCEPT !.primary_calls = @ + r.model_calls],
                                       r.exc)
                            ELSE [@ EXCEPT !.pc = "review", !.grade_result = r.ret,
                                           !.temp_files = <<>>,
                                           !.primary_calls = @ + r.model_calls,
                                           !.validated =
                                               IF r.ret.error THEN @ ELSE @ + 1]]
    /\ UNCHANGED <<call, grading_jobs, poll>>
    /\ response' = NoResponse
Grade(j) ==
    /\ At(j, "grade")
    /\ \E outcome \in JobPrimaryOutcomes :
          LET r == grade_submission(worker[j].files, worker[j].rubric, outcome)
          IN  worker' = [worker EXCEPT ![j] =
                            IF r.raised
                            THEN Raise([@ EXCEPT !.primary_calls = @ + r.model_calls],
                                       r.exc)
                            ELSE [@ EXCEPT !.pc = "review", !.grade_result = r.ret,
                                           !.primary_calls = @ + r.model_calls,
                                           !.validated =
                                               IF r.ret.error THEN @ ELSE @ + 1]]
    /\ UNCHANGED <<call, grading_jobs, poll>>
    /\ response' = NoResponse

\* review_result = grading_service.fairness_review(files, rubric, grade_result)
Review(j) ==
    /\ At(j, "review")
    /\ \E outcome \in JobReviewOutcomes :
          LET r == fairness_review(worker[j].files, worker[j].rubric,
                                   worker[j].grade_result, outcome)
          IN  worker' = [worker EXCEPT ![j] =
                            IF r.raised
                            THEN Raise([@ EXCEPT !.reviewer = outcome,
                                                 !.reviewer_calls = @ + r.reviewer_calls],
                                       r.exc)
                            ELSE [@ EXCEPT !.pc = "merge", !.review_result = r.ret,
                                           !.reviewer = outcome,
                                           !.reviewer_calls = @ + r.reviewer_calls]]
    /\ UNCHANGED <<call, grading_jobs, poll>>
    /\ response' = NoResponse

\* {**grade_result, 'fairness_flag': ..., 'fairness_message': ...}
MergedFlagsErrors(grade_result, review_result) ==
    [criteria |-> grade_result.criteria,
     total |-> grade_result.total,
     general_feedback |-> grade_result.general_feedback,
     error |-> grade_result.error,
     fairness_flag |-> review_result.flagged \/ grade_result.error,
     fairness_message |-> review_result.message]
Merged(grade_result, review_result) ==
    [criteria |-> grade_result.criteria,
     total |-> grade_result.total,
     general_feedback |-> grade_result.general_feedback,
     error |-> grade_result.error,
     fairness_flag |-> review_result.flagged,
     fairness_message |-> review_result.message]

\* grades[submission['id']] = {...}
MergeSkipsErrorGrade(j) ==
    /\ At(j, "merge")
    /\ worker' = [worker EXCEPT
                     ![j].pc = "cleanup",
                     ![j].grades =
                         IF worker[j].grade_result.error THEN @
                         ELSE Put(@, worker[j].submissions[worker[j].i + 1].id,
                                  Merged(worker[j].grade_result,
                                         worker[j].review_result))]
    /\ UNCHANGED <<call, grading_jobs, poll>>
    /\ response' = NoResponse
Merge(j) ==
    /\ At(j, "merge")
    /\ worker' = [worker EXCEPT
                     ![j].pc = "cleanup",
                     ![j].grades = Put(@, worker[j].submissions[worker[j].i + 1].id,
                                       Merged(worker[j].grade_result,
                                              worker[j].review_result))]
    /\ UNCHANGED <<call, grading_jobs, poll>>
    /\ response' = NoResponse

\* cleanup_files(files): every file of the list is removed, best effort
cleanup_files(temp_files, files) ==
    SelectSeq(temp_files, LAMBDA f : \A k \in 1..Len(files) : files[k] # f)

\* canvas_service.cleanup_files(files), and on to the next turn of the loop
Cleanup(j) ==
    /\ At(j, "cleanup")
    /\ worker' = [worker EXCEPT ![j].pc = "loop", ![j].i = @ + 1,
                                ![j].temp_files = cleanup_files(@, worker[j].files),
                                ![j].files = <<>>,
                                ![j].grade_result = NoGrade,
                                ![j].review_result = NoGrade,
                                ![j].reviewer = NoOutcome]
    /\ UNCHANGED <<call, grading_jobs, poll>>
    /\ response' = NoResponse

\* grading_jobs[job_id]['status'] = 'completed'
StoreStatusShared(j) ==
    /\ At(j, "store_status")
    /\ grading_jobs' = [k \in DOMAIN grading_jobs |->
                           [grading_jobs[k] EXCEPT !.status = "completed"]]
    /\ worker' = [worker EXCEPT ![j].pc = "store_result"]
    /\ UNCHANGED <<call, poll>>
    /\ response' = NoResponse
StoreStatus(j) ==
    /\ At(j, "store_status")
    /\ grading_jobs' = [grading_jobs EXCEPT ![j].status = "completed"]
    /\ worker' = [worker EXCEPT ![j].pc = "store_result"]
    /\ UNCHANGED <<call, poll>>
    /\ response' = NoResponse

\* grading_jobs[job_id]['result'] = {...}
StoreResult(j) ==
    /\ At(j, "store_result")
    /\ grading_jobs' = [grading_jobs EXCEPT ![j].result =
                           [null |-> FALSE,
                            assignment |-> [name |-> Assignment.name,
                                            rubric |-> worker[j].rubric],
                            submissions |-> worker[j].submissions,
                            grades |-> worker[j].grades]]
    /\ worker' = [worker EXCEPT ![j].pc = "done"]
    /\ UNCHANGED <<call, poll>>
    /\ response' = NoResponse

\* except Exception as e: grading_jobs[job_id]['status'] = 'failed'
ExceptStatusNoWrite(j) ==
    /\ At(j, "except")
    /\ worker' = [worker EXCEPT ![j].pc = "except_error"]
    /\ UNCHANGED <<call, grading_jobs, poll>>
    /\ response' = NoResponse
ExceptStatus(j) ==
    /\ At(j, "except")
    /\ grading_jobs' = [grading_jobs EXCEPT ![j].status = "failed"]
    /\ worker' = [worker EXCEPT ![j].pc = "except_error"]
    /\ UNCHANGED <<call, poll>>
    /\ response' = NoResponse

\* grading_jobs[job_id]['error'] = str(e)
ExceptErrorKeepsPartial(j) ==
    /\ At(j, "except_error")
    /\ grading_jobs' = [grading_jobs EXCEPT
                           ![j].error = worker[j].exc,
                           ![j].result = [null |-> FALSE,
                                          assignment |-> [name |-> Assignment.name,
                                                          rubric |-> worker[j].rubric],
                                          submissions |-> worker[j].submissions,
                                          grades |-> worker[j].grades]]
    /\ worker' = [worker EXCEPT ![j].pc = "done"]
    /\ UNCHANGED <<call, poll>>
    /\ response' = NoResponse
ExceptError(j) ==
    /\ At(j, "except_error")
    /\ grading_jobs' = [grading_jobs EXCEPT ![j].error = worker[j].exc]
    /\ worker' = [worker EXCEPT ![j].pc = "done"]
    /\ UNCHANGED <<call, poll>>
    /\ response' = NoResponse

\* get_grading_status reads the record several times while the worker of
\* the job may write it; one request is followed at a time.  poll holds the
\* locals of the request: the job it asked for, the status it put in the
\* answer, the result or error it put there, and where it is.
NoPoll == [pc |-> "none"]

PollAt(j, pc) == poll.pc = pc /\ poll.job = j

\* job = grading_jobs.get(job_id): 404 for a job that is not in the store;
\* otherwise response = {'status': job['status'], 'progress': job['progress']},
\* where the status is read now and the progress mapping is the store's own,
\* read when the answer is written
PollStatus(j) ==
    /\ poll = NoPoll
    /\ IF j \notin DOMAIN grading_jobs
       THEN /\ response' = [code |-> 404, job |-> j]
            /\ poll' = NoPoll
       ELSE /\ response' = NoResponse
            /\ poll' = [pc |-> "if_completed", job |-> j,
                        status |-> grading_jobs[j].status,
                        has_result |-> FALSE, result |-> NoResult,
                        has_error |-> FALSE, error |-> None]
    /\ UNCHANGED <<call, grading_jobs, worker>>

\* if job['status'] == 'completed'
PollIfCompleted(j) ==
    /\ PollAt(j, "if_completed")
    /\ poll' = [poll EXCEPT !.pc = IF grading_jobs[j].status = "completed"
                                   THEN "result" ELSE "if_failed"]
    /\ response' = NoResponse
    /\ UNCHANGED <<call, grading_jobs, worker>>

\* response['result'] = job['result']
PollResult(j) ==
    /\ PollAt(j, "result")
    /\ poll' = [poll EXCEPT !.pc = "jsonify", !.has_result = TRUE,
                            !.result = grading_jobs[j].result]
    /\ response' = NoResponse
    /\ UNCHANGED <<call, grading_jobs, worker>>

\* elif job['status'] == 'failed'
PollIfFailed(j) ==
    /\ PollAt(j, "if_failed")
    /\ poll' = [poll EXCEPT !.pc = IF grading_jobs[j].status = "failed"
                                   THEN "error" ELSE "jsonify"]
    /\ response' = NoResponse
    /\ UNCHANGED <<call, grading_jobs, worker>>

\* response['error'] = job['error']
PollError(j) ==
    /\ PollAt(j, "error")
    /\ poll' = [poll EXCEPT !.pc = "jsonify", !.has_error = TRUE,
                            !.error = grading_jobs[j].error]
    /\ response' = NoResponse
    /\ UNCHANGED <<call, grading_jobs, worker>>

\* return jsonify(response): the progress mapping is written out as it is now
PollJsonify(j) ==
    /\ PollAt(j, "jsonify")
    /\ response' = [code |-> 200, job |-> j,
                    status |-> poll.status,
                    progress |-> grading_jobs[j].progress,
                    has_result |-> poll.has_result,
                    result |-> poll.result,
                    has_error |-> poll.has_error,
                    error |-> poll.error]
    /\ poll' = NoPoll
    /\ UNCHANGED <<call, grading_jobs, worker>>

\* one step of a request for the status of job j
get_grading_status(j) ==
    \/ PollStatus(j)
    \/ PollIfCompleted(j)
    \/ PollResult(j)
    \/ PollIfFailed(j)
    \/ PollError(j)
    \/ PollJsonify(j)

\* one step of the thread of job j
run_grading_job(j) ==
    \/ SetRunning(j)
    \/ GetAssignment(j)
    \/ GetRubric(j)
    \/ GetSubmissionsRaises(j)
    \/ GetSubmissions(j)
    \/ LoopNext(j)
    \/ SetCurrentStudent(j)
    \/ LoopEnd(j)
    \/ Download(j)
    \/ Grade(j)
    \/ Review(j)
    \/ Merge(j)
    \/ Cleanup(j)
    \/ StoreStatus(j)
    \/ StoreResult(j)
    \/ ExceptStatus(j)
    \/ ExceptError(j)

Init ==
    /\ call = NoCall
    /\ grading_jobs = EmptyDict
    /\ worker = EmptyDict
    /\ poll = NoPoll
    /\ response = NoResponse

Next ==
    \/ \E j \in JobIds : start_grading(j)
    \/ \E j \in JobIds : run_grading_job(j)
    \/ \E j \in PolledJobs : get_grading_status(j)

\* the jobs: requests and worker threads, interleaved statement by statement
Spec == Init /\ [][Next]_vars

\* the steps of the thread of job j other than the two calls of the models
ThreadSteps(j) ==
    \/ SetRunning(j)
    \/ GetAssignment(j)
    \/ GetRubric(j)
    \/ GetSubmissionsRaises(j)
    \/ GetSubmissions(j)
    \/ LoopNext(j)
    \/ SetCurrentStudent(j)
    \/ LoopEnd(j)
    \/ Download(j)
    \/ Merge(j)
    \/ Cleanup(j)
    \/ StoreStatus(j)
    \/ StoreResult(j)
    \/ ExceptStatus(j)
    \/ ExceptError(j)

\* requests that start jobs and the steps of their threads.  A poll writes
\* nothing to the store or to a thread and no thread reads what a poll
\* holds, so the records go through the same values with polls left out.
FairNext ==
    \/ \E j \in JobIds : start_grading(j)
    \/ \E j \in JobIds : run_grading_job(j)

\* the jobs with threads that keep running: a started thread is scheduled
\* again and again, and every call it makes returns or raises.  Grade(j) is
\* enabled exactly when the thread is at the call of the primary model and
\* every Grade(j) step leaves it, so weak fairness of Grade(j) is that the
\* thread is again and again not at that call; the same for Review(j).
FairSpec ==
    /\ Init /\ [][FairNext]_vars
    /\ \A j \in JobIds :
          /\ WF_vars(ThreadSteps(j))
          /\ []<>~At(j, "grade")
          /\ []<>~At(j, "review")

ServiceNext ==
    \/ Call_extract_text_from_files
    \/ Call_parse_json_response
    \/ Call_validate_grade_result
    \/ Call_grade_submission
    \/ Call_fairness_review
    \/ Call_regrade_with_adjustments
    \/ Return

\* the grading service alone, one call at a time
ServiceSpec == Init /\ [][ServiceNext]_vars

(* ------------------------------ claims --------------------------------- *)

\* the clamp as the specification words it
ExpectedScore(reported, points) ==
    CASE reported < 0      -> 0
      [] reported > points -> points
      [] OTHER             -> reported

\* criterion i is the last of the rubric with its id (every criterion is,
\* when the ids are unique)
LastWithId(rubric, i) ==
    \A k \in 1..Len(rubric) : rubric[k].id = rubric[i].id => k <= i

\* the sentinel empty grade of a rubric: error set, every criterion 0, total 0
IsSentinel(grade, rubric) ==
    /\ grade.error
    /\ grade.total = 0
    /\ DOMAIN grade.criteria = RubricIds(rubric)
    /\ \A id \in DOMAIN grade.criteria : grade.criteria[id].score = 0

\* C2: for a rubric with unique criterion ids, the grade grade_submission
\* returns has total equal to the sum of the scores of its own criteria, and
\* so has every grade regrade_with_adjustments returns; the validated grade
\* is the same whatever total the model reported.
C2_TotalIsSumOfCriteria ==
    /\ (call.op = "grade_submission" /\ ~call.out.raised /\ UniqueIds(call.rubric))
          => call.out.ret.total = SumScores(call.out.ret.criteria)
    /\ (call.op = "regrade_with_adjustments" /\ ~call.out.raised)
          => call.out.ret.total = SumScores(call.out.ret.criteria)
    /\ (call.op = "_validate_grade_result" /\ ~call.out.raised)
          => call.out = _validate_grade_result([call.result EXCEPT !.total = 0],
                                               call.rubric)

\* a validated grade of a two-criterion rubric with a positive total, from
\* an answer that reported 99 as its total
C2_Witness ==
    /\ call.op = "grade_submission"
    /\ UniqueIds(call.rubric) /\ Len(call.rubric) = 2
    /\ ~call.out.raised /\ ~call.out.ret.error
    /\ call.outcome.text = Plain(GoodObject)
    /\ call.out.ret.total > 0

\* C3: the score _validate_grade_result stores for a rubric criterion the
\* response scores is the reported score clamped to [0, points]: 0 below 0,
\* points above points, the reported score in between.
C3_ScoreClamped ==
    (call.op = "_validate_grade_result" /\ ~call.out.raised) =>
        \A i \in 1..Len(call.rubric) :
            LET c == call.rubric[i]
            IN  (c.id \in DOMAIN call.result.criteria /\ LastWithId(call.rubric, i)) =>
                    LET stored == call.out.value.criteria[c.id].score
                    IN  /\ stored = ExpectedScore(call.result.criteria[c.id].score,
                                                  c.points)
                        /\ 0 <= stored /\ stored <= c.points

\* one criterion reported below 0 and stored as 0, one reported above its
\* cap and stored as the cap
C3_Witness ==
    /\ call.op = "_validate_grade_result" /\ ~call.out.raised
    /\ Len(call.rubric) = 2 /\ UniqueIds(call.rubric)
    /\ call.rubric[1].points = MaxPoints /\ call.rubric[2].points = 1
    /\ DOMAIN call.result.criteria = CriterionIds
    /\ call.result.criteria[call.rubric[1].id].score = MaxPoints + 1
    /\ call.result.criteria[call.rubric[2].id].score < 0
    /\ call.out.value.criteria[call.rubric[1].id].score = MaxPoints
    /\ call.out.value.criteria[call.rubric[2].id].score = 0

\* C4: the criteria of a validated grade are keyed by exactly the rubric's
\* ids; an id the response omits has score 0 and feedback "No assessment
\* provided"; an id only the response has is not a key.
C4_KeysAreRubricIds ==
    (call.op = "_validate_grade_result" /\ ~call.out.raised) =>
        /\ DOMAIN call.out.value.criteria = RubricIds(call.rubric)
        /\ \A id \in RubricIds(call.rubric) \ DOMAIN call.result.criteria :
              call.out.value.criteria[id] =
                  [score |-> 0, feedback |-> Str("No assessment provided")]

\* the rubric has c1 only, the response c2 only
C4_Witness ==
    /\ call.op = "_validate_grade_result" /\ ~call.out.raised
    /\ RubricIds(call.rubric) = {"c1"}
    /\ DOMAIN call.result.criteria = {"c2"}
    /\ DOMAIN call.out.value.criteria = {"c1"}

\* the message of the exception the try block of grade_submission catches,
\* "" when there is none
CaughtByGrader(rubric, outcome) ==
    LET parsed == _parse_json_response(outcome.text)
    IN  IF outcome.call_raises THEN "api error"
        ELSE IF parsed.raised THEN ParseErrorMsg
        ELSE IF ValidateRaises(parsed.value, rubric) THEN "invalid response"
        ELSE ""

\* C5: when the primary-model call, the parsing of its answer or the
\* validation of the parsed answer raises, grade_submission returns (it does
\* not raise) the sentinel empty grade, whose general_feedback is "Grading
\* failed: " followed by the exception's message.
C5_GraderCatches ==
    (/\ call.op = "grade_submission"
     /\ ~Unreadable(extract_text_from_files(call.files).text)
     /\ ~call.outcome.prompt_raises
     /\ CaughtByGrader(call.rubric, call.outcome) # "") =>
        /\ ~call.out.raised
        /\ IsSentinel(call.out.ret, call.rubric)
        /\ call.out.ret.general_feedback =
              <<"Grading failed: ", CaughtByGrader(call.rubric, call.outcome)>>

\* the answer parses and its validation raises
C5_Witness ==
    /\ call.op = "grade_submission"
    /\ ~Unreadable(extract_text_from_files(call.files).text)
    /\ ~call.outcome.prompt_raises /\ ~call.outcome.call_raises
    /\ ~_parse_json_response(call.outcome.text).raised
    /\ Len(call.rubric) = 2 /\ UniqueIds(call.rubric)
    /\ CaughtByGrader(call.rubric, call.outcome) = "invalid response"
    /\ call.out.ret.error

\* C7: grade_submission on an empty file list returns the sentinel empty
\* grade with general_feedback "Unable to read submission files" and calls
\* the primary model zero times.
C7_EmptyFileList ==
    (call.op = "grade_submission" /\ call.files = <<>>) =>
        /\ ~call.out.raised
        /\ IsSentinel(call.out.ret, call.rubric)
        /\ call.out.ret.general_feedback = <<"Unable to read submission files">>
        /\ call.out.model_calls = 0

\* no files, a two-criterion rubric, a model that would have answered well
C7_Witness ==
    /\ call.op = "grade_submission" /\ call.files = <<>>
    /\ Len(call.rubric) = 2 /\ UniqueIds(call.rubric)
    /\ call.outcome = PrimaryOutcome(FALSE, FALSE, Plain(GoodObject))
    /\ call.out.ret.error

\* C8: fairness_review of a grade with error set returns flagged FALSE and
\* the message "Skipped - grading error", with no reviewer-model call and no
\* text extraction.
C8_ReviewSkipsErrorGrade ==
    (call.op = "fairness_review" /\ call.grade_result.error) =>
        /\ ~call.out.raised
        /\ call.out.ret.flagged = FALSE
        /\ call.out.ret.message = <<"Skipped - grading error">>
        /\ call.out.reviewer_calls = 0
        /\ call.out.extractions = 0

\* a sentinel grade, readable files and a reviewer that would have flagged
C8_Witness ==
    /\ call.op = "fairness_review" /\ call.grade_result.error
    /\ call.files # <<>>
    /\ ~call.outcome.prompt_raises /\ ~call.outcome.call_raises
    /\ ~_parse_json_response(call.outcome.text).raised
    /\ _parse_json_response(call.outcome.text).value.kind = "object"
    /\ _parse_json_response(call.outcome.text).value.flagged
    /\ ~call.out.ret.flagged

\* C1: a job record is created pending; its status then only goes from
\* pending to running and from running to completed or to failed; a
\* completed or failed status never changes, and no record leaves the store,
\* whatever polls and other workers do in between.
C1_StatusTransitions ==
    [][\A j \in JobIds :
          /\ j \in DOMAIN grading_jobs => j \in DOMAIN grading_jobs'
          /\ (j \notin DOMAIN grading_jobs /\ j \in DOMAIN grading_jobs')
                => grading_jobs'[j].status = "pending"
          /\ (j \in DOMAIN grading_jobs /\ grading_jobs'[j].status # Status(j))
                => <<Status(j), grading_jobs'[j].status>> \in
                      {<<"pending", "running">>, <<"running", "completed">>,
                       <<"running", "failed">>}]_vars

\* one job completed, the other failed, and a poll answered
C1_Witness ==
    /\ DOMAIN grading_jobs = JobIds
    /\ \E j, k \in JobIds : Status(j) = "completed" /\ Status(k) = "failed"
    /\ response # NoResponse /\ response.code = 200

\* the reviewer model, or the parsing of its answer, failed during the
\* fairness_review call of the submission worker w is at
ReviewerFailed(w) ==
    /\ w.reviewer # NoOutcome
    /\ ~w.grade_result.error
    /\ \/ w.reviewer.prompt_raises
       \/ w.reviewer.call_raises
       \/ _parse_json_response(w.reviewer.text).raised
       \/ _parse_json_response(w.reviewer.text).value.kind # "object"

\* C6: when the reviewer fails on a submission, fairness_review returns
\* flagged FALSE with a "Review skipped: ..." message; the worker does not
\* reach its except clause, the job stays running, the merged grade of the
\* submission is stored and the loop moves on to the next submission.
C6_ReviewerFailureNotFatal ==
    /\ [](\A j \in DOMAIN worker :
            LET w == worker[j]
            IN  ReviewerFailed(w) =>
                  /\ w.pc \in {"merge", "cleanup"}
                  /\ w.exc = None
                  /\ Status(j) = "running"
                  /\ w.review_result.flagged = FALSE
                  /\ Len(w.review_result.message) = 2
                  /\ w.review_result.message[1] = "Review skipped: "
                  /\ w.pc = "cleanup" =>
                        LET id == w.submissions[w.i + 1].id
                        IN  /\ id \in DOMAIN w.grades
                            /\ w.grades[id] = Merged(w.grade_result, w.review_result))
    /\ [][\A j \in DOMAIN worker :
            (ReviewerFailed(worker[j]) /\ worker'[j] # worker[j]) =>
                \/ worker'[j].pc = "cleanup"
                \/ /\ worker'[j].pc = "loop"
                   /\ worker'[j].i = worker[j].i + 1
                   /\ worker'[j].grades = worker[j].grades]_vars

\* the reviewer call of the first of two submissions raised, its grade is
\* stored with the skip message, and the worker is at the second submission
C6_Witness ==
    \E j \in DOMAIN worker :
        LET w == worker[j]
        IN  /\ w.pc = "review" /\ w.i = 1
            /\ 1 \in DOMAIN w.grades
            /\ ~w.grades[1].error
            /\ w.grades[1].fairness_message = <<"Review skipped: ", "api error">>
            /\ w.grades[1].fairness_flag = FALSE

\* C9: progress.total is the number of submissions from the fetch of the
\* submission list on and does not change afterwards; progress.current
\* starts at 0, only ever grows by 1, is the number of the submission in
\* progress, and equals the number of submissions when the status is
\* completed.
C9_ProgressCounts ==
    /\ [](\A j \in DOMAIN grading_jobs :
            LET w == worker[j]
                p == grading_jobs[j].progress
            IN  /\ w.pc \in {"start", "get_assignment", "get_rubric", "get_submissions"}
                      => p.current = 0
                /\ w.pc \in {"loop", "current_student", "download", "grade", "review",
                            "merge", "cleanup", "store_status", "store_result"}
                      => p.total = Len(w.submissions)
                /\ w.pc \in {"current_student", "download", "grade", "review",
                            "merge", "cleanup"}
                      => p.current = w.i + 1
                /\ Status(j) = "completed"
                      => p.current = Len(w.submissions) /\ p.total = Len(w.submissions))
    /\ [][\A j \in DOMAIN grading_jobs :
            LET p == grading_jobs[j].progress
                q == grading_jobs'[j].progress
            IN  /\ q.current = p.current \/ q.current = p.current + 1
                /\ worker[j].pc # "get_submissions" => q.total = p.total]_vars

\* a completed job of MaxSubs submissions
C9_Witness ==
    \E j \in DOMAIN grading_jobs :
        /\ Status(j) = "completed"
        /\ Len(worker[j].submissions) = MaxSubs
        /\ grading_jobs[j].progress.current = MaxSubs
        /\ grading_jobs[j].progress.total = MaxSubs

\* C10: once an exception has reached the except clause of the worker, the
\* worker processes nothing more; the job's result stays null, so no grade
\* computed before is in the record; the status becomes failed and then the
\* error is the exception's message.
C10_FailureKeepsNoResult ==
    \A j \in DOMAIN worker :
        LET w == worker[j]
            job == grading_jobs[j]
        IN  /\ w.exc # None =>
                /\ w.pc \in {"except", "except_error", "done"}
                /\ job.result = NoResult
                /\ job.status \in {"running", "failed"}
                /\ job.progress.current <= w.i + 1
                /\ w.pc \in {"except_error", "done"} => job.status = "failed"
                /\ w.pc = "done" => job.error = w.exc
            /\ job.status = "failed" => w.exc # None
            /\ job.error # None => job.error = w.exc /\ job.status = "failed"

\* the grader raised on the second submission: the job is failed with that
\* message, the grade of the first submission exists only in the worker
C10_Witness ==
    \E j \in DOMAIN worker :
        /\ worker[j].pc = "done"
        /\ Status(j) = "failed"
        /\ grading_jobs[j].error = "prompt error"
        /\ worker[j].i = 1
        /\ 1 \in DOMAIN worker[j].grades
        /\ grading_jobs[j].progress.current = 2
        /\ grading_jobs[j].result = NoResult

\* the ids of the first n submissions
SubmissionIds(submissions, n) == {submissions[k].id : k \in 1..n}

\* the messages of the failures the Grader and the Reviewer catch
GraderReviewerFailures ==
    {"api error", ParseErrorMsg, "invalid response", "no attribute get"}

\* C11: the grade mapping a worker builds has exactly one entry per
\* submission processed so far, and the result it stores has exactly one
\* entry per submission id of result.submissions, sentinel error grades and
\* skipped reviews included; no failure of the primary-model call, of the
\* reviewer-model call, of parsing or of validation reaches the except
\* clause of run_grading_job.
C11_OneGradePerSubmission ==
    \A j \in DOMAIN worker :
        /\ worker[j].pc = "loop" =>
              DOMAIN worker[j].grades =
                  SubmissionIds(worker[j].submissions, worker[j].i)
        /\ ~grading_jobs[j].result.null =>
              /\ DOMAIN grading_jobs[j].result.grades =
                    SubmissionIds(grading_jobs[j].result.submissions,
                                  Len(grading_jobs[j].result.submissions))
              /\ Cardinality(DOMAIN grading_jobs[j].result.grades) =
                    Len(grading_jobs[j].result.submissions)
        /\ worker[j].exc \notin GraderReviewerFailures

\* a stored result of two submissions: one with the sentinel error grade of
\* a failed model call, one graded whose review was skipped for a failed
\* reviewer call
C11_Witness ==
    \E j \in DOMAIN worker :
        /\ worker[j].pc = "done" /\ Status(j) = "completed"
        /\ ~grading_jobs[j].result.null
        /\ Len(grading_jobs[j].result.submissions) = 2
        /\ \E a, b \in DOMAIN grading_jobs[j].result.grades :
              /\ grading_jobs[j].result.grades[a].error
              /\ grading_jobs[j].result.grades[a].general_feedback =
                    <<"Grading failed: ", "api error">>
              /\ ~grading_jobs[j].result.grades[b].error
              /\ grading_jobs[j].result.grades[b].fairness_message =
                    <<"Review skipped: ", "api error">>

\* C12 as claimed: cleanup_files has been called on every downloaded file
\* before the worker downloads the next submission's files and whenever the
\* job's status is completed or failed, also when the grade step raised.
C12_FilesReleased ==
    \A j \in DOMAIN worker :
        (worker[j].pc = "download" \/ Status(j) \in {"completed", "failed"})
            => worker[j].temp_files = <<>>

\* C13 as claimed: the answer to a poll that reports completed carries a
\* non-null result with a grade for every submission, and the answer to a
\* poll that reports failed carries a non-null error, wherever the poll
\* falls between the statements of the worker.
C13_PollSeesResult ==
    response.code = 200 =>
        /\ response.status = "completed" =>
              /\ response.has_result
              /\ ~response.result.null
              /\ DOMAIN response.result.grades =
                    SubmissionIds(response.result.submissions,
                                  Len(response.result.submissions))
        /\ response.status = "failed" =>
              /\ response.has_error
              /\ response.error # None

\* C14 as claimed: a step taken while a job's status is completed or failed
\* leaves the job's record (status, progress, result, error) as it is.
C14_TerminalRecordFrozen ==
    [][\A j \in DOMAIN grading_jobs :
          Status(j) \in {"completed", "failed"} =>
              grading_jobs'[j] = grading_jobs[j]]_vars

\* C15: a grade grade_submission returns carries error = TRUE only if it is
\* the sentinel empty grade of the rubric (every criterion 0, total 0), and
\* it is the sentinel exactly when the text was unreadable or the model call,
\* the parsing or the validation failed; a grade _validate_grade_result
\* builds from a parsed response never carries error = TRUE.
C15_ErrorOnlyOnSentinel ==
    /\ (call.op = "grade_submission" /\ ~call.out.raised) =>
          /\ call.out.ret.error => IsSentinel(call.out.ret, call.rubric)
          /\ call.out.ret.error <=>
                (\/ Unreadable(extract_text_from_files(call.files).text)
                 \/ CaughtByGrader(call.rubric, call.outcome) # "")
    /\ (call.op = "_validate_grade_result" /\ ~call.out.raised) =>
          ~call.out.value.error

\* a failed model call on a rubric with points to give: the grade is marked
\* as an error and every score is 0
C15_Witness ==
    /\ call.op = "grade_submission" /\ ~call.out.raised
    /\ call.outcome.call_raises
    /\ ~Unreadable(extract_text_from_files(call.files).text)
    /\ Len(call.rubric) = 2 /\ UniqueIds(call.rubric)
    /\ \A i \in 1..2 : call.rubric[i].points = MaxPoints
    /\ call.out.ret.error
    /\ call.out.ret.total = 0

\* extraction fails for the file: the reader or the OCR raises
ExtractionFails(f) == f.content \in {"unreadable", "ocr_failed"}

\* C16 as claimed: when extraction fails for every file of a non-empty list,
\* grade_submission returns the sentinel empty grade with the message
\* "Unable to read submission files" and calls the primary model zero times.
C16_AllFilesFailSentinel ==
    (/\ call.op = "grade_submission"
     /\ call.files # <<>>
     /\ \A k \in 1..Len(call.files) : ExtractionFails(call.files[k])) =>
        /\ ~call.out.raised
        /\ IsSentinel(call.out.ret, call.rubric)
        /\ call.out.ret.general_feedback = <<"Unable to read submission files">>
        /\ call.out.model_calls = 0

\* how many chunks the files before the k-th add to the text
ChunksBefore(files, k) ==
    Len(extract_text_from_files(SubSeq(files, 1, k - 1)).text)

\* the k-th file adds exactly one chunk, between what the files before it
\* add and what the files after it add
OneChunkAndOn(files, k, text) ==
    /\ Len(text) > ChunksBefore(files, k)
    /\ text = extract_text_from_files(SubSeq(files, 1, k - 1)).text
                \o <<text[ChunksBefore(files, k) + 1]>>
                \o extract_text_from_files(SubSeq(files, k + 1, Len(files))).text

\* the k-th file is a .txt or unrecognized file whose UTF-8 read fails
Undecodable(files, k) ==
    files[k].ext \in {"txt", "other"} /\ files[k].content = "unreadable"

\* C17 as claimed: for a .txt file and for a file with an unrecognized
\* extension whose UTF-8 read fails, extract_text_from_files emits the
\* placeholder "[Unable to read file: <name>]" for that file and goes on to
\* the remaining files.
C17_PlaceholderBothCases ==
    call.op = "extract_text_from_files" =>
        \A k \in 1..Len(call.files) :
            Undecodable(call.files, k) =>
                /\ ~call.out.raised
                /\ OneChunkAndOn(call.files, k, call.out.text)
                /\ call.out.text[ChunksBefore(call.files, k) + 1].body =
                      "[Unable to read file: name]"

\* C17 amended: for a file with an unrecognized extension whose UTF-8 read
\* fails, extract_text_from_files emits the placeholder "[Unable to read
\* file: <name>]" under the file's header; for a .txt file whose UTF-8 read
\* fails it emits the marker "[Error reading <name>: <reason>]" with no
\* header; in both cases it goes on to the remaining files.
C17_PlaceholderOrMarker ==
    call.op = "extract_text_from_files" =>
        \A k \in 1..Len(call.files) :
            Undecodable(call.files, k) =>
                /\ ~call.out.raised
                /\ OneChunkAndOn(call.files, k, call.out.text)
                /\ call.out.text[ChunksBefore(call.files, k) + 1] =
                      IF call.files[k].ext = "txt"
                      THEN [head |-> "", body |-> "[Error reading name: e]"]
                      ELSE [head |-> "--- File: name ---",
                            body |-> "[Unable to read file: name]"]

\* an unrecognized file and a .txt file, neither of them UTF-8: one chunk
\* each, in list order
C17_Witness ==
    /\ call.op = "extract_text_from_files"
    /\ call.files = <<File("other", "unreadable"), File("txt", "unreadable")>>
    /\ ~call.out.raised
    /\ Len(call.out.text) = 2
    /\ call.out.text[1].body = "[Unable to read file: name]"
    /\ call.out.text[2].body = "[Error reading name: e]"

\* what the k-th file of a list yields when it is extracted alone
Alone(files, k) == extract_text_from_files(<<files[k]>>)

\* C18: extract_text_from_files returns a text and does not raise, for every
\* list of files; the text is what the files yield one by one, in list
\* order; a file whose reader or OCR raises yields one inline marker and
\* nothing else, and a readable file yields its text under its header
\* whatever happens to the other files.
C18_ExtractionNeverRaises ==
    call.op = "extract_text_from_files" =>
        /\ ~call.out.raised
        /\ \A k \in 1..Len(call.files) :
              /\ ~Alone(call.files, k).raised
              /\ call.out.text =
                    extract_text_from_files(SubSeq(call.files, 1, k - 1)).text
                        \o Alone(call.files, k).text
                        \o extract_text_from_files(
                               SubSeq(call.files, k + 1, Len(call.files))).text
              /\ ExtractionFails(call.files[k]) =>
                    /\ Len(Alone(call.files, k).text) = 1
                    /\ Alone(call.files, k).text[1].body \in BracketStrings
              /\ call.files[k].content = "text" =>
                    Alone(call.files, k).text =
                        <<[head |-> "--- File: name ---", body |-> "text"]>>

\* a .txt file that is not UTF-8 followed by a readable DOCX: the marker,
\* then the text of the second file
C18_Witness ==
    /\ call.op = "extract_text_from_files"
    /\ call.files = <<File("txt", "unreadable"), File("docx", "text")>>
    /\ ~call.out.raised
    /\ call.out.text = <<[head |-> "", body |-> "[Error reading name: e]"],
                         [head |-> "--- File: name ---", body |-> "text"]>>

\* C19 as claimed: whatever _parse_json_response returns is a JSON object;
\* on text that is valid JSON of another kind it fails.
C19_ParserReturnsObjectOnly ==
    (call.op = "_parse_json_response" /\ ~call.out.raised) =>
        call.out.value.kind = "object"

\* a word of prose, with or without a brace
IsProse(tok) == tok.t \in {"word", "open", "close"}

\* the text has a JSON object somewhere
ContainsObject(text) ==
    \E i \in 1..Len(Flatten(text)) : HasBraces(Flatten(text)[i])

\* the text is the object v between two words of prose
InProse(text, v) ==
    /\ Len(text) = 1 /\ Len(text[1]) = 3
    /\ IsProse(text[1][1]) /\ text[1][2] = Json(v) /\ IsProse(text[1][3])

\* C20 as claimed: from a JSON object alone, a JSON object in a fenced code
\* block and a JSON object with any prose before and after it,
\* _parse_json_response returns that object; on text with no JSON object it
\* raises.
C20_ParserRecoversObject ==
    call.op = "_parse_json_response" =>
        /\ \A v \in SampleValues :
              (/\ v.kind = "object"
               /\ \/ call.text = Plain(v)
                  \/ call.text = Fenced(v)
                  \/ InProse(call.text, v)) =>
                  (~call.out.raised /\ call.out.value = v)
        /\ ~ContainsObject(call.text) => call.out.raised

\* C21 as claimed: every review fairness_review returns has a confidence,
\* and it is a number between 0 and 1 (0 and 10 tenths), whatever confidence
\* the reviewer model's response has.
C21_ConfidenceInRange ==
    (call.op = "fairness_review" /\ ~call.out.raised) =>
        /\ call.out.ret.full
        /\ 0 <= call.out.ret.confidence
        /\ call.out.ret.confidence <= 10

\* C22 as claimed: every criterion score of a grade regrade_with_adjustments
\* returns lies between 0 and the points of its rubric criterion, whatever
\* the suggested adjustments are.
C22_RegradeScoresInRange ==
    (/\ call.op = "regrade_with_adjustments" /\ ~call.out.raised
     /\ UniqueIds(call.rubric)) =>
        \A i \in 1..Len(call.rubric) :
            call.rubric[i].id \in DOMAIN call.out.ret.criteria =>
                /\ 0 <= call.out.ret.criteria[call.rubric[i].id].score
                /\ call.out.ret.criteria[call.rubric[i].id].score
                      <= call.rubric[i].points

\* C27 as claimed: regrade_with_adjustments leaves its grade_result argument
\* as it was: same criterion scores, same feedback, same total, and the
\* total still the sum of the criterion scores when it was before the call.
C27_RegradeKeepsInput ==
    call.op = "regrade_with_adjustments" =>
        /\ call.out.grade_result_after = call.grade_result
        /\ call.grade_result.total = SumScores(call.grade_result.criteria) =>
              call.out.grade_result_after.total =
                  SumScores(call.out.grade_result_after.criteria)

\* the file is read with non-empty text
ReadWithText(f) == f.content \in {"text", "scanned"}

\* C28 as claimed: when at least one file of the list is read with
\* non-empty text, grade_submission calls the primary model and does not
\* return the "Unable to read submission files" sentinel, wherever the
\* unreadable files are in the list.
C28_ReadableFileIsGraded ==
    (/\ call.op = "grade_submission"
     /\ ~call.outcome.prompt_raises
     /\ \E k \in 1..Len(call.files) : ReadWithText(call.files[k])) =>
        /\ ~call.out.raised
        /\ call.out.model_calls = 1
        /\ call.out.ret.general_feedback # <<"Unable to read submission files">>

\* C29: a worker calls the primary model at most once per submission and
\* only in the grade step, and the reviewer model at most once per
\* submission and only in the review step of a submission whose grade is no
\* error grade; so its reviewer calls never exceed its validated grades,
\* which never exceed its primary-model calls.
C29_OneCallPerSubmission ==
    /\ [](\A j \in DOMAIN worker :
            /\ worker[j].reviewer_calls <= worker[j].validated
            /\ worker[j].validated <= worker[j].primary_calls
            /\ worker[j].primary_calls <= worker[j].i + 1
            /\ worker[j].primary_calls <= Len(worker[j].submissions)
            /\ worker[j].pc \in {"loop", "current_student", "download", "grade"} =>
                  worker[j].primary_calls <= worker[j].i)
    /\ [][\A j \in DOMAIN worker :
            /\ worker'[j].primary_calls # worker[j].primary_calls =>
                  /\ worker[j].pc = "grade"
                  /\ worker'[j].primary_calls = worker[j].primary_calls + 1
            /\ worker'[j].reviewer_calls # worker[j].reviewer_calls =>
                  /\ worker[j].pc = "review"
                  /\ ~worker[j].grade_result.error
                  /\ worker'[j].reviewer_calls = worker[j].reviewer_calls + 1]_vars

\* a job of two submissions is done: the first call of the primary model
\* failed (no reviewer call), the second gave a validated grade that was
\* reviewed
C29_Witness ==
    \E j \in DOMAIN worker :
        /\ worker[j].pc = "done" /\ Status(j) = "completed"
        /\ Len(worker[j].submissions) = 2
        /\ worker[j].primary_calls = 2
        /\ worker[j].validated = 1
        /\ worker[j].reviewer_calls = 1

\* C30: in every state of every job record, 0 <= progress.current <=
\* progress.total: before the worker starts, between the write of status
\* running and the write of progress.total, during the loop, and after the
\* job has completed or failed.
C30_ProgressWithinTotal ==
    \A j \in DOMAIN grading_jobs :
        /\ 0 <= grading_jobs[j].progress.current
        /\ grading_jobs[j].progress.current <= grading_jobs[j].progress.total

\* a job that failed in the grade step of its second submission of two
C30_Witness ==
    \E j \in DOMAIN grading_jobs :
        /\ Status(j) = "failed"
        /\ worker[j].exc = "prompt error"
        /\ grading_jobs[j].progress.current = 2
        /\ grading_jobs[j].progress.total = 2
        /\ DOMAIN worker[j].grades = {1}

\* the steps that may follow a step of the loop body
StepsAfter(pc) ==
    CASE pc = "loop"     -> {"current_student", "store_status"}
      [] pc = "current_student" -> {"download"}
      [] pc = "download" -> {"grade"}
      [] pc = "grade"    -> {"review", "except"}
      [] pc = "review"   -> {"merge", "except"}
      [] pc = "merge"    -> {"cleanup"}
      [] pc = "cleanup"  -> {"loop"}
      [] OTHER           -> {}

InLoopBody(pc) ==
    pc \in {"loop", "current_student", "download", "grade", "review", "merge",
            "cleanup"}

\* C23: within a job the steps of a submission run in the order download,
\* grade, review, merge, cleanup, and the next submission is taken only
\* after the cleanup of the one before: the index moves by one, in the
\* cleanup step only, the grades recorded are those of the submissions
\* before the current one, no temporary file of an earlier submission is
\* left when a submission starts, and the files of the current submission
\* stay unreleased from the download until the cleanup, after the grade and
\* review steps.
C23_StrictlySerial ==
    /\ [](\A j \in DOMAIN worker :
            /\ worker[j].pc \in {"loop", "current_student", "download"} =>
                  /\ worker[j].temp_files = <<>>
                  /\ DOMAIN worker[j].grades =
                        SubmissionIds(worker[j].submissions, worker[j].i)
            /\ worker[j].pc \in {"grade", "review", "merge", "cleanup"} =>
                  /\ worker[j].i < Len(worker[j].submissions)
                  /\ worker[j].temp_files = worker[j].files
            /\ worker[j].pc \in {"grade", "review", "merge"} =>
                  DOMAIN worker[j].grades =
                      SubmissionIds(worker[j].submissions, worker[j].i)
            /\ worker[j].pc = "cleanup" =>
                  DOMAIN worker[j].grades =
                      SubmissionIds(worker[j].submissions, worker[j].i + 1))
    /\ [][\A j \in DOMAIN worker :
            /\ (InLoopBody(worker[j].pc) /\ worker'[j].pc # worker[j].pc) =>
                  worker'[j].pc \in StepsAfter(worker[j].pc)
            /\ worker'[j].i # worker[j].i =>
                  /\ worker[j].pc = "cleanup"
                  /\ worker'[j].i = worker[j].i + 1
            /\ worker'[j].temp_files # worker[j].temp_files =>
                  worker[j].pc \in {"download", "cleanup"}]_vars

\* the second submission of a job is about to be downloaded: the first has
\* its grade and its files are released
C23_Witness ==
    \E j \in DOMAIN worker :
        /\ worker[j].pc = "download"
        /\ worker[j].i = 1
        /\ DOMAIN worker[j].grades = {1}
        /\ worker[j].temp_files = <<>>

\* C24: a step that changes the record of a job is a step of that job's own
\* worker and changes no other job's record and no other worker; a new
\* record is the pending one of start_grading; and the result a worker
\* stores is made of what its own calls returned (its rubric, its
\* submissions, its grades), whatever the other workers and the polls did
\* in between.
C24_OwnRecordOnly ==
    /\ [](\A j \in DOMAIN grading_jobs :
            ~grading_jobs[j].result.null =>
                /\ worker[j].pc = "done"
                /\ grading_jobs[j].result.grades = worker[j].grades
                /\ grading_jobs[j].result.submissions = worker[j].submissions
                /\ grading_jobs[j].result.assignment.rubric = worker[j].rubric)
    /\ [][/\ \A j \in DOMAIN grading_jobs :
               grading_jobs'[j] # grading_jobs[j] =>
                   /\ worker'[j] # worker[j]
                   /\ \A k \in DOMAIN grading_jobs \ {j} :
                         /\ grading_jobs'[k] = grading_jobs[k]
                         /\ worker'[k] = worker[k]
          /\ \A j \in (DOMAIN grading_jobs') \ DOMAIN grading_jobs :
               /\ grading_jobs'[j].status = "pending"
               /\ worker'[j] = WorkerStart
               /\ \A k \in DOMAIN grading_jobs :
                     /\ grading_jobs'[k] = grading_jobs[k]
                     /\ worker'[k] = worker[k]]_vars

\* two jobs at once: one has stored its result while the other is in the
\* middle of a submission
C24_Witness ==
    \E j, k \in DOMAIN grading_jobs :
        /\ j # k
        /\ Status(j) = "completed" /\ ~grading_jobs[j].result.null
        /\ Len(grading_jobs[j].result.submissions) = 1
        /\ Status(k) = "running" /\ worker[k].pc = "review"

\* an entry of a grade mapping with error set carries the skipped review
ErrorEntriesSkipped(grades) ==
    \A id \in DOMAIN grades :
        grades[id].error =>
            /\ grades[id].fairness_flag = FALSE
            /\ grades[id].fairness_message = Str("Skipped - grading error")

\* C25: right after the merge of a submission, its entry of the grade
\* mapping has every field of the grade unchanged, fairness_flag equal to
\* the review's flagged and fairness_message equal to the review's message;
\* and every entry with error set, in a worker's mapping or in a stored
\* result, has fairness_flag false and the message 'Skipped - grading error'.
C25_MergedEntry ==
    \A j \in DOMAIN grading_jobs :
        /\ worker[j].pc = "cleanup" =>
              LET id == worker[j].submissions[worker[j].i + 1].id
                  g == worker[j].grade_result
                  r == worker[j].review_result
              IN  /\ id \in DOMAIN worker[j].grades
                  /\ worker[j].grades[id].criteria = g.criteria
                  /\ worker[j].grades[id].total = g.total
                  /\ worker[j].grades[id].general_feedback = g.general_feedback
                  /\ worker[j].grades[id].error = g.error
                  /\ worker[j].grades[id].fairness_flag = r.flagged
                  /\ worker[j].grades[id].fairness_message = r.message
        /\ ErrorEntriesSkipped(worker[j].grades)
        /\ ~grading_jobs[j].result.null =>
              ErrorEntriesSkipped(grading_jobs[j].result.grades)

\* a stored result with an error entry and an entry the reviewer flagged
C25_Witness ==
    \E j \in DOMAIN grading_jobs :
        /\ ~grading_jobs[j].result.null
        /\ \E a, b \in DOMAIN grading_jobs[j].result.grades :
              /\ grading_jobs[j].result.grades[a].error
              /\ ~grading_jobs[j].result.grades[b].error
              /\ grading_jobs[j].result.grades[b].fairness_flag = TRUE

\* C26: when every thread keeps being scheduled and every call it makes
\* returns or raises, a job that start_grading created reaches status
\* completed or failed; none stays pending or running for ever.
C26_JobTerminates ==
    \A j \in JobIds :
        (j \in DOMAIN grading_jobs)
            ~> (j \in DOMAIN grading_jobs /\ Status(j) \in {"completed", "failed"})

\* both ends: one job completed after grading two submissions, the other
\* failed, and both threads are over
C26_Witness ==
    \E j, k \in DOMAIN grading_jobs :
        /\ Status(j) = "completed" /\ worker[j].pc = "done"
        /\ worker[j].i = 2
        /\ Status(k) = "failed" /\ worker[k].pc = "done"

====
